---------------------------- MODULE Spec2Model ----------------------------
(***************************************************************************)
(* btmgmt (tools/btmgmt.c): the management client built on the mgmt        *)
(* request/response + event multiplexer.                                   *)
(*                                                                         *)
(* The handlers, the response callbacks, the commands and main() are       *)
(* translated from tools/btmgmt.c.  The multiplexer itself (mgmt_send,     *)
(* mgmt_reply, mgmt_register, mgmt_cancel_all, mgmt_unregister_all and the *)
(* read loop of src/shared/mgmt.c) is not part of the sources at hand and  *)
(* is modelled from the specification's sections 4.1 - 4.3.                *)
(***************************************************************************)
EXTENDS Integers, Sequences, FiniteSets, TLC

VARIABLES
    argv,           \* the options of the command line: the argument of --index
                    \* (NoArg when absent) and whether --verbose is given
    pc,             \* position of main(): getopt, start, register, loop, cancel, unregister, unref, done, exited
    cmd,            \* argv[0]: the command of this run
    optIndex,       \* main's index: the --index option, MGMT_INDEX_NONE when absent
    monitor,        \* static bool monitor
    discovery,      \* static bool discovery
    resolve_names,  \* static bool resolve_names (the session's name-resolution policy)
    table,          \* Pending-Call Table: the outstanding requests, oldest first
    hist,           \* per CallID: its continuation and destructor, and how often the
                    \* continuation, the cancellation and the destructor ran
    subs,           \* Event Registry: the subscriptions in registration order
    quits,          \* number of g_main_loop_quit(event_loop) calls
    open,           \* the mgmt transport is referenced (not yet mgmt_unref'ed)
    stdin,          \* operator input not yet consumed
    step,           \* the latest step: the frame handled, the subscriptions invoked,
                    \* the calls completed, the requests submitted, the value returned
    scen,           \* observer of the "find" scenario: start success, found*, stopped
    pending,        \* static int pending
    inbox           \* the transport's receive side: the frames that arrived and
                    \* are not read yet (queue), all that arrived, all that were
                    \* read, and those that arrived while a prompt was waiting

vars == <<argv, pc, cmd, optIndex, monitor, discovery, resolve_names, table, hist,
          subs, quits, open, stdin, step, scen, pending, inbox>>

---------------------------------------------------------------------------
(* Bounds and input alphabets *)

\* at most this many requests are accepted in one run
MaxCalls == 3

\* at most this many requests are accepted in a run with an operator at the prompt
MaxReplies == 2

\* wildcard / "no controller" index (lib/mgmt.h), as used by main()
MGMT_INDEX_NONE == 65535

\* controller indices the endpoint reports
Indices == {0, 1}

\* values of the --index option
OptIndices == Indices \cup {MGMT_INDEX_NONE}

\* remote devices: struct mgmt_addr_info { bdaddr, type }, the type being
\* 0 (BR/EDR), 1 (LE Public) or 2 (LE Random)
Devices == { [bdaddr |-> "AA", type |-> 0], [bdaddr |-> "BB", type |-> 1] }

NoDev == [bdaddr |-> "00", type |-> 0]

Commands == {"monitor", "find", "power"}

\* an operator line longer than the pin buffer
LongLine == <<"1", "2", "3", "4", "5", "6", "7", "8", "9", "0",
              "1", "2", "3", "4", "5", "6", "7", "8", "\n">>

\* operator input streams of a run (characters; "\n" ends a line; the
\* stream ends at end of input)
Inputs == { <<>>,
            <<"\n", "Y", "\n">>,
            <<"y", "e", "s", "\n", "n", "o">>,
            LongLine }

Min(a, b) == IF a < b THEN a ELSE b

---------------------------------------------------------------------------
(* The command line options (main's getopt_long loop) *)

\* no --index option on the command line
NoArg == <<"none">>

\* arguments of --index: numbers, and hciN names in several spellings
IndexArgs == { <<"0">>, <<"1">>, <<"7">>, <<"1", "2">>,
               <<"h", "c", "i", "0">>, <<"h", "c", "i", "1">>,
               <<"H", "C", "I", "1">>, <<"H", "c", "i", "7">>,
               <<"h", "c", "i", "1", "2">> }

DigitChars == <<"0", "1", "2", "3", "4", "5", "6", "7", "8", "9">>

IsDigit(c) == \E d \in 1..Len(DigitChars) : DigitChars[d] = c

DigitVal(c) == (CHOOSE d \in 1..Len(DigitChars) : DigitChars[d] = c) - 1

\* the decimal digits at the front of str, read as a number, onto acc
RECURSIVE Digits(_, _)
Digits(str, acc) ==
    IF str = <<>> \/ ~IsDigit(str[1]) THEN acc
    ELSE Digits(Tail(str), acc * 10 + DigitVal(str[1]))

\* atoi: leading white space and a sign are skipped, the digits that
\* follow are converted, and conversion stops at the first other character
\* (or at the end of the string: 0 when there is no digit)
RECURSIVE atoi(_)
atoi(str) ==
    IF str = <<>> THEN 0
    ELSE IF str[1] = " " THEN atoi(Tail(str))
    ELSE IF str[1] = "-" THEN 0 - Digits(Tail(str), 0)
    ELSE IF str[1] = "+" THEN Digits(Tail(str), 0)
    ELSE Digits(str, 0)

\* tolower, for the letters of "hci"
ToLower(c) ==
    CASE c = "H" -> "h" [] c = "C" -> "c" [] c = "I" -> "i" [] OTHER -> c

\* strncasecmp(a, b, n) == 0
SameNoCase(a, b, n) ==
    \A k \in 1..n :
        IF k > Len(a) \/ k > Len(b) THEN k > Len(a) /\ k > Len(b)
        ELSE ToLower(a[k]) = ToLower(b[k])

\* &optarg[k]: the string from its character number k (counted from 0) on;
\* optarg[strlen(optarg)] is the terminator, an empty string
From(str, k) == SubSeq(str, k + 1, Len(str))

\* the assignment to a uint16_t
U16(n) == n % 65536

\* case 'i' of main's option switch
OptIndex(optarg) ==
    IF Len(optarg) > 3 /\ SameNoCase(optarg, <<"h", "c", "i">>, 3)
    THEN U16(atoi(From(optarg, 4)))
    ELSE U16(atoi(optarg))

\* the command line of a run whose index was given as a number and
\* without --verbose
ArgvOf(index) ==
    [index |-> CASE index = 0 -> <<"0">> [] index = 1 -> <<"1">> [] OTHER -> NoArg,
     verbose |-> FALSE]

---------------------------------------------------------------------------
(* Frames: { kind: Response | Event, code, index, status, payload } *)

NoFrame == [kind |-> "none", code |-> "none", index |-> 0, status |-> 0,
            len |-> "ok", addr |-> NoDev, val |-> 0]

\* command-complete / command-status frame for (opcode, index)
Rsp(op, i, st) == [kind |-> "rsp", code |-> op, index |-> i, status |-> st,
                   len |-> "ok", addr |-> NoDev, val |-> 0]

\* event frame; len is "ok", "short" or "long" against the event's structure,
\* val is ev->discovering, the CONFIRM_NAME bit of ev->flags, or ev->confirm_hint
Evt(ev, i, l, a, v) == [kind |-> "evt", code |-> ev, index |-> i, status |-> 0,
                        len |-> l, addr |-> a, val |-> v]

RspOps == {"START_DISCOVERY", "SET_POWERED", "CONFIRM_NAME",
           "PIN_CODE_REPLY", "PIN_CODE_NEG_REPLY"}

\* a response whose return parameters are absent ("zero") or of another
\* length than the opcode's structure ("short")
RspLen(op, i, st, l) == [Rsp(op, i, st) EXCEPT !.len = l]

RspFrames ==
    { Rsp(op, i, st) : op \in RspOps, i \in Indices, st \in {0, 1} }
    \cup { RspLen("CONFIRM_NAME", i, 1, "zero") : i \in Indices }
    \cup { RspLen("CONFIRM_NAME", i, 0, "short") : i \in Indices }

EvtFrames ==
    { Evt("DISCOVERING", i, "ok", NoDev, v) : i \in Indices, v \in {0, 1} }
    \cup { Evt("DISCOVERING", i, "short", NoDev, 0) : i \in Indices }
    \cup { Evt("DEVICE_FOUND", i, "ok", a, v) : i \in Indices, a \in Devices, v \in {0, 1} }
    \cup { Evt("DEVICE_FOUND", i, "short", NoDev, 1) : i \in Indices }
    \cup { Evt("PIN_CODE_REQUEST", i, "ok", a, 0) : i \in Indices, a \in Devices }
    \cup { Evt("NEW_SETTINGS", i, "ok", NoDev, 0) : i \in Indices }

\* the frames of a run with an operator at the prompt: the two request
\* events, the responses to the four replies, the start and the end of a
\* discovery, and payloads of a wrong length
PromptRspOps == {"PIN_CODE_REPLY", "PIN_CODE_NEG_REPLY",
                 "USER_CONFIRM_REPLY", "USER_CONFIRM_NEG_REPLY"}

PromptRspFrames ==
    { Rsp(op, i, st) : op \in PromptRspOps, i \in Indices, st \in {0, 1} }
    \cup { Rsp("START_DISCOVERY", 0, 0) }

WrongLen == {"short", "long"}

PromptEvtFrames ==
    { Evt("PIN_CODE_REQUEST", i, "ok", a, 0) : i \in Indices, a \in Devices }
    \cup { Evt("USER_CONFIRM_REQUEST", i, "ok", a, v) : i \in Indices, a \in Devices, v \in {0, 1} }
    \cup { Evt("PIN_CODE_REQUEST", 0, l, NoDev, 0) : l \in WrongLen }
    \cup { Evt("USER_CONFIRM_REQUEST", 0, l, NoDev, 0) : l \in WrongLen }
    \cup { Evt("DEVICE_FOUND", 0, l, NoDev, 1) : l \in WrongLen }
    \cup { Evt("DISCOVERING", 0, l, NoDev, 0) : l \in WrongLen \cup {"ok"} }

---------------------------------------------------------------------------
(* The working state of one step: the program's variables plus what the   *)
(* step did (ret: the value returned by the last call; err: the messages  *)
(* written to stderr; out: the printf calls of the event handlers; exit:   *)
(* the process ended inside the step).                                     *)

Cur == [discovery |-> discovery, monitor |-> monitor, pending |-> pending, table |-> table,
        hist |-> hist, subs |-> subs, quits |-> quits, stdin |-> stdin,
        invoked |-> <<>>, completed |-> <<>>, sent |-> <<>>,
        ret |-> 0, err |-> 0, out |-> 0, exit |-> FALSE]

g_main_loop_quit(s) == [s EXCEPT !.quits = @ + 1]

\* fprintf(stderr, ...)
report(s) == [s EXCEPT !.err = @ + 1]

\* printf(...)
printf(s) == [s EXCEPT !.out = @ + 1]

\* if (monitor) printf(...)
monitor_printf(s) == IF s.monitor THEN printf(s) ELSE s

\* a request parameter block (struct mgmt_cp_*): the device, name_known
\* (-1: the request has no such field), pin_len and pin_code
Param(a, nk, pin) == [addr |-> a, name_known |-> nk, pin_len |-> Len(pin), pin_code |-> pin]

NoParam == Param(NoDev, -1, <<>>)

\* user_data of a pending call: NULL, or send_cmd's struct command_data
NoData == [id |-> 0, op |-> "none", callback |-> "NULL"]

---------------------------------------------------------------------------
(* Pending-Call Table (specification 4.1) *)

\* submit: on success inserts a PendingCall and returns its non-zero CallID;
\* returns 0 when the transport does not accept the write (ok = FALSE)
mgmt_send(s, op, index, param, cb, data, destroy, ok) ==
    IF ok
    THEN [s EXCEPT
            !.table = Append(@, [id |-> Len(s.hist) + 1, op |-> op, index |-> index,
                                 cb |-> cb, data |-> data, destroy |-> destroy]),
            !.hist = Append(@, [op |-> op, index |-> index, cb |-> cb,
                                destroy |-> destroy,
                                fired |-> 0, cancelled |-> 0, destroyed |-> 0]),
            !.sent = Append(@, [op |-> op, index |-> index, param |-> param,
                                id |-> Len(s.hist) + 1]),
            !.ret = Len(s.hist) + 1]
    ELSE [s EXCEPT
            !.sent = Append(@, [op |-> op, index |-> index, param |-> param, id |-> 0]),
            !.ret = 0]

\* mgmt_reply: the same submission, used from event handlers
mgmt_reply(s, op, index, param, cb, data, destroy, ok) ==
    mgmt_send(s, op, index, param, cb, data, destroy, ok)

\* a table that delivers a response to the oldest entry of its key
LookupPending_oldest(t, op, index) ==
    LET hits == { i \in 1..Len(t) : t[i].op = op /\ t[i].index = index }
    IN IF hits = {} THEN 0 ELSE CHOOSE i \in hits : \A j \in hits : i <= j

\* the entry a response for (op, index) is delivered to: the most recently
\* submitted one with that key (last writer wins); 0 when there is none
LookupPending(t, op, index) ==
    LET hits == { i \in 1..Len(t) : t[i].op = op /\ t[i].index = index }
    IN IF hits = {} THEN 0 ELSE CHOOSE i \in hits : \A j \in hits : j <= i

RemoveId(t, id) == SelectSeq(t, LAMBDA e : e.id # id)

---------------------------------------------------------------------------
(* Operator input: fgets(buf, n, stdin) *)

\* position of the first "\n" in a stream, 0 when there is none
FirstNL(in) ==
    LET nl == { i \in 1..Len(in) : in[i] = "\n" }
    IN IF nl = {} THEN 0 ELSE CHOOSE i \in nl : \A j \in nl : i <= j

\* fgets reads at most n - 1 characters and stops after a line terminator;
\* line = <<>> stands for the NULL it returns at end of input
fgets(n, in) ==
    LET k == FirstNL(in)
        m == IF k # 0 /\ k <= n - 1 THEN k ELSE Min(n - 1, Len(in))
    IN [line |-> SubSeq(in, 1, m), rest |-> SubSeq(in, m + 1, Len(in))]

\* the trailing line terminator, when there is one, is cut off
StripNL(line) ==
    IF Len(line) > 0 /\ line[Len(line)] = "\n" THEN SubSeq(line, 1, Len(line) - 1) ELSE line

---------------------------------------------------------------------------
(* Response callbacks (tools/btmgmt.c) *)

\* a confirm_name_rsp that gives the session up on a failure
confirm_name_rsp_quits(s, status, len) ==
    IF status # 0 \/ len # "ok" THEN g_main_loop_quit(report(s)) ELSE s

confirm_name_rsp(s, status, len) ==
    IF len = "zero" /\ status # 0 THEN report(s)
    ELSE IF len # "ok" THEN report(s)
    ELSE IF status # 0 THEN report(s)
    ELSE s

pin_rsp(s, status) == IF status # 0 THEN g_main_loop_quit(report(s)) ELSE s

pin_neg_rsp(s, status) == IF status # 0 THEN g_main_loop_quit(report(s)) ELSE s

confirm_rsp(s, status) == IF status # 0 THEN g_main_loop_quit(report(s)) ELSE s

confirm_neg_rsp(s, status) == IF status # 0 THEN g_main_loop_quit(report(s)) ELSE s

\* find_rsp that reports the start but does not record it
find_rsp_flag_not_set(s, status) ==
    IF status # 0 THEN g_main_loop_quit(report(s)) ELSE s

\* find_rsp that reports a failed start and goes on waiting
find_rsp_failure_not_final(s, status) ==
    IF status # 0 THEN report(s) ELSE [s EXCEPT !.discovery = TRUE]

find_rsp(s, status) ==
    IF status # 0 THEN g_main_loop_quit(report(s)) ELSE [s EXCEPT !.discovery = TRUE]

\* both the failure and the success path end at "done: g_main_loop_quit"
setting_rsp(s, op, id, status) ==
    IF status # 0 THEN g_main_loop_quit(report(s)) ELSE g_main_loop_quit(s)

\* data->callback(data->op, data->id, status, len, param)
cmd_rsp(s, status, data) ==
    CASE data.callback = "setting_rsp" -> setting_rsp(s, data.op, data.id, status)
      [] OTHER -> s

\* rp->index[] of a read-index-list response: the payload value of the
\* frame numbers the lists the endpoint may report
IndexLists == << <<>>, <<0>>, <<1>>, <<0, 1>>, <<1, 0>> >>

IndexList(v) == IndexLists[v + 1]

\* user_data of a read-info request: GINT_TO_POINTER((int) index)
IndexData(index) == [id |-> index, op |-> "none", callback |-> "NULL"]

info_rsp(s, status, len, data) ==
    LET s1 == [s EXCEPT !.pending = @ - 1]
    IN IF status # 0 THEN g_main_loop_quit(report(s1))
       ELSE IF len = "short" THEN g_main_loop_quit(report(s1))
       ELSE IF s1.pending > 0 THEN s1
       ELSE g_main_loop_quit(s1)

\* the for loop of index_rsp from list position k on: one READ_INFO request
\* per index; a request the transport does not take ends the loop and the run
RECURSIVE index_rsp_loop(_, _, _, _)
index_rsp_loop(s, list, k, e) ==
    IF k > Len(list) THEN s
    ELSE LET r == mgmt_send(s, "READ_INFO", list[k], NoParam, "info_rsp",
                            IndexData(list[k]), "NULL",
                            IF k = 1 THEN e.ok ELSE e.ok2)
         IN IF r.ret = 0 THEN g_main_loop_quit(report(r))
            ELSE index_rsp_loop([r EXCEPT !.pending = @ + 1], list, k + 1, e)

index_rsp(s, status, len, param, e) ==
    IF status # 0 THEN g_main_loop_quit(report(s))
    ELSE IF len = "short" THEN g_main_loop_quit(report(s))
    ELSE IF Len(IndexList(param)) = 0 THEN g_main_loop_quit(s)
    ELSE index_rsp_loop(s, IndexList(param), 1, e)

\* the completion continuation of a pending call, by name
Callback(cb, s, status, len, param, data, e) ==
    CASE cb = "find_rsp" -> find_rsp(s, status)
      [] cb = "index_rsp" -> index_rsp(s, status, len, param, e)
      [] cb = "info_rsp" -> info_rsp(s, status, len, data)
      [] cb = "confirm_name_rsp" -> confirm_name_rsp(s, status, len)
      [] cb = "pin_rsp" -> pin_rsp(s, status)
      [] cb = "pin_neg_rsp" -> pin_neg_rsp(s, status)
      [] cb = "confirm_rsp" -> confirm_rsp(s, status)
      [] cb = "confirm_neg_rsp" -> confirm_neg_rsp(s, status)
      [] cb = "cmd_rsp" -> cmd_rsp(s, status, data)
      [] OTHER -> s

\* complete that hands a response without a pending entry to the oldest call
request_complete_oldest_on_miss(s, op, index, status, len, param, e0) ==
    LET i == IF LookupPending(s.table, op, index) = 0 /\ s.table # <<>>
             THEN 1 ELSE LookupPending(s.table, op, index)
    IN IF i = 0 THEN s
       ELSE LET e == s.table[i]
                s1 == [s EXCEPT !.hist[e.id].fired = @ + 1,
                                !.completed = Append(@, e.id)]
                s2 == Callback(e.cb, s1, status, len, param, e.data, e0)
            IN [s2 EXCEPT !.table = RemoveId(@, e.id)]

\* complete(key, status): an absent key is dropped; a present entry has its
\* continuation invoked once and is removed
request_complete(s, op, index, status, len, param, e0) ==
    LET i == LookupPending(s.table, op, index)
    IN IF i = 0 THEN s
       ELSE LET e == s.table[i]
                s1 == [s EXCEPT !.hist[e.id].fired = @ + 1,
                                !.completed = Append(@, e.id)]
                s2 == Callback(e.cb, s1, status, len, param, e.data, e0)
            IN [s2 EXCEPT !.table = RemoveId(@, e.id)]

\* cancel_all(): every entry is removed, its continuation is not invoked,
\* its destructor (if any) is
mgmt_cancel_all(s) ==
    [s EXCEPT !.table = <<>>,
              !.hist = [id \in 1..Len(s.hist) |->
                  IF \E i \in 1..Len(s.table) : s.table[i].id = id
                  THEN LET e == s.table[CHOOSE i \in 1..Len(s.table) : s.table[i].id = id]
                       IN [s.hist[id] EXCEPT
                              !.cancelled = @ + 1,
                              !.destroyed = IF e.destroy # "NULL" THEN @ + 1 ELSE @]
                  ELSE s.hist[id]]]

---------------------------------------------------------------------------
(* Event handlers (tools/btmgmt.c).  e is what the environment decides     *)
(* during the step: e.ok, whether the transport accepts a submission.      *)

\* handlers that only print, and only when monitor is set; all but
\* index_added and index_removed first turn away a payload of a wrong
\* length ("len <" or "len !=" the event's structure)
controller_error(s, index, ev) == IF ev.len = "short" THEN report(s) ELSE monitor_printf(s)

index_added(s, index, ev) == monitor_printf(s)

index_removed(s, index, ev) == monitor_printf(s)

new_settings(s, index, ev) == IF ev.len = "short" THEN report(s) ELSE monitor_printf(s)

new_link_key(s, index, ev) == IF ev.len # "ok" THEN report(s) ELSE monitor_printf(s)

connected(s, index, ev) == IF ev.len # "ok" THEN report(s) ELSE monitor_printf(s)

disconnected(s, index, ev) == IF ev.len = "short" THEN report(s) ELSE monitor_printf(s)

conn_failed(s, index, ev) == IF ev.len # "ok" THEN report(s) ELSE monitor_printf(s)

auth_failed(s, index, ev) == IF ev.len # "ok" THEN report(s) ELSE monitor_printf(s)

local_name_changed(s, index, ev) == IF ev.len # "ok" THEN report(s) ELSE monitor_printf(s)

\* discovering that ends the run on any stopped event
discovering_any_stop(s, index, ev) ==
    IF ev.len = "short" THEN report(s)
    ELSE IF ev.val = 0 THEN g_main_loop_quit(s) ELSE s

\* if (len < sizeof(*ev)): only a payload that is too short is turned away
discovering(s, index, ev) ==
    IF ev.len = "short" THEN report(s)
    ELSE IF ev.val = 0 /\ s.discovery THEN monitor_printf(g_main_loop_quit(s)) ELSE monitor_printf(s)

\* the two branches on resolve_names exchanged
NameKnown_inverted(rn) == IF rn THEN 1 ELSE 0

\* cp.name_known of the confirm-name request
NameKnown(rn) == IF rn THEN 0 ELSE 1

\* device_found that asks for confirmation only when names are to be resolved
device_found_only_if_resolving(s, index, ev, rn, e) ==
    IF ev.len # "ok" THEN report(s)
    ELSE IF s.discovery /\ ev.val = 1 /\ rn
         THEN mgmt_reply(s, "CONFIRM_NAME", index, Param(ev.addr, NameKnown(rn), <<>>),
                         "confirm_name_rsp", NoData, "NULL", e.ok)
         ELSE s

\* device_found that submits the confirm-name request where it prints
device_found_replies_when_printing(s, index, ev, rn, e) ==
    IF ev.len # "ok" THEN report(s)
    ELSE IF (s.monitor \/ s.discovery) /\ ev.val = 1
         THEN mgmt_reply(printf(s), "CONFIRM_NAME", index,
                         Param(ev.addr, NameKnown(rn), <<>>),
                         "confirm_name_rsp", NoData, "NULL", e.ok)
         ELSE IF s.monitor \/ s.discovery THEN printf(s) ELSE s

\* len < sizeof(*ev), or len != sizeof(*ev) + eir_len; the event is printed
\* if (monitor || discovery)
device_found(s, index, ev, rn, e) ==
    IF ev.len # "ok" THEN report(s)
    ELSE LET s1 == IF s.monitor \/ s.discovery THEN printf(s) ELSE s
         IN IF s1.discovery /\ ev.val = 1
            THEN mgmt_reply(s1, "CONFIRM_NAME", index, Param(ev.addr, NameKnown(rn), <<>>),
                            "confirm_name_rsp", NoData, "NULL", e.ok)
            ELSE s1

\* uint8_t pin_code[16] of struct mgmt_cp_pin_code_reply
PinCodeSize == 16

\* cp.pin_len = len; memcpy(cp.pin_code, pin, len): the request carries the
\* sizeof(cp) bytes of cp, so the first PinCodeSize characters.  A longer
\* pin is written past the end of cp: the write either goes unnoticed or
\* (e.ub) the process is aborted when mgmt_pin_reply returns
mgmt_pin_reply(s, index, addr, pin, e) ==
    LET cp == [addr |-> addr, name_known |-> -1, pin_len |-> Len(pin),
               pin_code |-> SubSeq(pin, 1, Min(Len(pin), PinCodeSize))]
        r == mgmt_reply(s, "PIN_CODE_REPLY", index, cp, "pin_rsp", NoData, "NULL", e.ok)
    IN IF Len(pin) > PinCodeSize /\ e.ub THEN [r EXCEPT !.exit = TRUE] ELSE r

mgmt_pin_neg_reply(s, index, addr, e) ==
    mgmt_reply(s, "PIN_CODE_NEG_REPLY", index, Param(addr, -1, <<>>),
               "pin_neg_rsp", NoData, "NULL", e.ok)

\* char pin[18]
PinBuf == 18

\* request_pin that takes a payload of any length
request_pin_no_length_check(s, index, ev, e) ==
    LET r == fgets(PinBuf, s.stdin)
        s1 == [s EXCEPT !.stdin = r.rest]
    IN IF r.line = <<>> \/ r.line[1] = "\n"
       THEN mgmt_pin_neg_reply(s1, index, ev.addr, e)
       ELSE mgmt_pin_reply(s1, index, ev.addr, StripNL(r.line), e)

\* request_pin that sends the PIN reply and then, for a PIN it takes to be
\* too short, the negative reply as well
request_pin_replies_twice(s, index, ev, e) ==
    IF ev.len # "ok" THEN report(s)
    ELSE LET r == fgets(PinBuf, s.stdin)
             s1 == [s EXCEPT !.stdin = r.rest]
         IN IF r.line = <<>> \/ r.line[1] = "\n"
            THEN mgmt_pin_neg_reply(s1, index, ev.addr, e)
            ELSE mgmt_pin_neg_reply(mgmt_pin_reply(s1, index, ev.addr, StripNL(r.line), e),
                                    index, ev.addr, e)

\* the event is printed if (monitor), the prompt always
request_pin(s, index, ev, e) ==
    IF ev.len # "ok" THEN report(s)
    ELSE LET r == fgets(PinBuf, s.stdin)
             s1 == [printf(monitor_printf(s)) EXCEPT !.stdin = r.rest]
         IN IF r.line = <<>> \/ r.line[1] = "\n"
            THEN mgmt_pin_neg_reply(s1, index, ev.addr, e)
            ELSE mgmt_pin_reply(s1, index, ev.addr, StripNL(r.line), e)

\* memset(&cp, 0, sizeof(cp)); bacpy(&cp.addr.bdaddr, bdaddr)
mgmt_confirm_reply(s, index, bdaddr, e) ==
    mgmt_reply(s, "USER_CONFIRM_REPLY", index,
               Param([bdaddr |-> bdaddr, type |-> 0], -1, <<>>),
               "confirm_rsp", NoData, "NULL", e.ok)

mgmt_confirm_neg_reply(s, index, bdaddr, e) ==
    mgmt_reply(s, "USER_CONFIRM_NEG_REPLY", index,
               Param([bdaddr |-> bdaddr, type |-> 0], -1, <<>>),
               "confirm_neg_rsp", NoData, "NULL", e.ok)

\* char rsp[5]
RspBuf == 5

\* user_confirm that takes the empty line for consent
user_confirm_empty_accepts(s, index, ev, e) ==
    IF ev.len # "ok" THEN report(s)
    ELSE LET r == fgets(RspBuf, s.stdin)
             s1 == [s EXCEPT !.stdin = r.rest]
         IN IF r.line = <<>> \/ r.line[1] = "\n"
            THEN mgmt_confirm_reply(s1, index, ev.addr.bdaddr, e)
            ELSE IF r.line[1] = "y" \/ r.line[1] = "Y"
                 THEN mgmt_confirm_reply(s1, index, ev.addr.bdaddr, e)
                 ELSE mgmt_confirm_neg_reply(s1, index, ev.addr.bdaddr, e)

\* the event is printed if (monitor), the prompt always
user_confirm(s, index, ev, e) ==
    IF ev.len # "ok" THEN report(s)
    ELSE LET r == fgets(RspBuf, s.stdin)
             s1 == [printf(monitor_printf(s)) EXCEPT !.stdin = r.rest]
         IN IF r.line = <<>> \/ r.line[1] = "\n"
            THEN mgmt_confirm_neg_reply(s1, index, ev.addr.bdaddr, e)
            ELSE IF r.line[1] = "y" \/ r.line[1] = "Y"
                 THEN mgmt_confirm_reply(s1, index, ev.addr.bdaddr, e)
                 ELSE mgmt_confirm_neg_reply(s1, index, ev.addr.bdaddr, e)

\* the delivery continuation of a subscription, by name
Handler(cb, s, ev, rn, e) ==
    CASE cb = "controller_error" -> controller_error(s, ev.index, ev)
      [] cb = "index_added" -> index_added(s, ev.index, ev)
      [] cb = "index_removed" -> index_removed(s, ev.index, ev)
      [] cb = "new_settings" -> new_settings(s, ev.index, ev)
      [] cb = "discovering" -> discovering(s, ev.index, ev)
      [] cb = "new_link_key" -> new_link_key(s, ev.index, ev)
      [] cb = "connected" -> connected(s, ev.index, ev)
      [] cb = "disconnected" -> disconnected(s, ev.index, ev)
      [] cb = "conn_failed" -> conn_failed(s, ev.index, ev)
      [] cb = "auth_failed" -> auth_failed(s, ev.index, ev)
      [] cb = "local_name_changed" -> local_name_changed(s, ev.index, ev)
      [] cb = "device_found" -> device_found(s, ev.index, ev, rn, e)
      [] cb = "request_pin" -> request_pin(s, ev.index, ev, e)
      [] cb = "user_confirm" -> user_confirm(s, ev.index, ev, e)
      [] OTHER -> s

---------------------------------------------------------------------------
(* Event Registry (specification 4.2) *)

\* register(eventCode, index-or-ANY, continuation)
mgmt_register(s, event, index, cb) ==
    [s EXCEPT !.subs = Append(@, [event |-> event, index |-> index, cb |-> cb])]

mgmt_unregister_all(s) == [s EXCEPT !.subs = <<>>]

\* a registry that matches on the event code alone
MatchNotify_any_index(n, ev) == n.event = ev.code

\* a subscription takes a frame of its event code whose index is its own,
\* or any frame of its event code when it was registered with the wildcard
MatchNotify(n, ev) ==
    n.event = ev.code /\ (n.index = ev.index \/ n.index = MGMT_INDEX_NONE)

\* the subscriptions a frame is for (their positions in the registry)
Matching(registry, ev) == { i \in 1..Len(registry) : MatchNotify(registry[i], ev) }

\* dispatch: the matching subscriptions are invoked in registration order
RECURSIVE process_notify(_, _, _, _, _)
process_notify(s, ev, todo, rn, e) ==
    IF todo = {} THEN s
    ELSE LET i == CHOOSE k \in todo : \A j \in todo : k <= j
         IN process_notify(
                Handler(s.subs[i].cb, [s EXCEPT !.invoked = Append(@, i)], ev, rn, e),
                ev, todo \ {i}, rn, e)

---------------------------------------------------------------------------
(* Multiplexer Loop (specification 4.3): one inbound frame *)

\* a loop that takes the discriminant the wrong way round
can_read_data_swapped(s, f, rn, e) ==
    IF f.kind = "evt" THEN request_complete(s, f.code, f.index, f.status, f.len, f.val, e)
    ELSE process_notify(s, f, Matching(s.subs, f), rn, e)

\* classification by the header's discriminant: a response goes to the
\* Pending-Call Table, an event to the Event Registry
can_read_data(s, f, rn, e) ==
    IF f.kind = "rsp" THEN request_complete(s, f.code, f.index, f.status, f.len, f.val, e)
    ELSE process_notify(s, f, Matching(s.subs, f), rn, e)

---------------------------------------------------------------------------
(* Commands (tools/btmgmt.c) *)

\* send_cmd handing mgmt_send no destructor for its command_data
send_cmd_no_destroy(s, op, id, param, cb, e) ==
    LET r == mgmt_send(s, op, id, param, "cmd_rsp",
                       [id |-> id, op |-> op, callback |-> cb], "NULL", e.ok)
    IN [r EXCEPT !.ret = id]

\* the wrapper returns its parameter id, the controller index, whatever
\* mgmt_send returned; the command_data is freed at once when mgmt_send failed
send_cmd(s, op, id, param, cb, e) ==
    LET r == mgmt_send(s, op, id, param, "cmd_rsp",
                       [id |-> id, op |-> op, callback |-> cb], "g_free", e.ok)
    IN [r EXCEPT !.ret = id]

\* if (index == MGMT_INDEX_NONE) index = 0
CmdIndex(index) == IF index = MGMT_INDEX_NONE THEN 0 ELSE index

cmd_monitor(s, index, e) == [s EXCEPT !.monitor = TRUE]

cmd_setting(s, index, op, e) ==
    LET r == send_cmd(s, op, CmdIndex(index), NoParam, "setting_rsp", e)
    IN IF r.ret = 0 THEN [report(r) EXCEPT !.exit = TRUE] ELSE r

cmd_power(s, index, e) == cmd_setting(s, index, "SET_POWERED", e)

cmd_find(s, index, e) ==
    LET r == mgmt_send(s, "START_DISCOVERY", CmdIndex(index), NoParam,
                       "find_rsp", NoData, "NULL", e.ok)
    IN IF r.ret = 0 THEN [report(r) EXCEPT !.exit = TRUE] ELSE r

cmd_info(s, index, e) ==
    IF index = MGMT_INDEX_NONE
    THEN LET r == mgmt_send(s, "READ_INDEX_LIST", MGMT_INDEX_NONE, NoParam,
                            "index_rsp", NoData, "NULL", e.ok)
         IN IF r.ret = 0 THEN [report(r) EXCEPT !.exit = TRUE] ELSE r
    ELSE LET r == mgmt_send(s, "READ_INFO", index, NoParam, "info_rsp",
                            IndexData(index), "NULL", e.ok)
         IN IF r.ret = 0 THEN [report(r) EXCEPT !.exit = TRUE] ELSE r

\* command[i].func(mgmt, index, argc, argv)
Command(c, s, index, e) ==
    CASE c = "monitor" -> cmd_monitor(s, index, e)
      [] c = "info" -> cmd_info(s, index, e)
      [] c = "power" -> cmd_power(s, index, e)
      [] c = "find" -> cmd_find(s, index, e)
      [] OTHER -> s

\* the fourteen mgmt_register calls of main, in their order
EventHandlers ==
    << <<"CONTROLLER_ERROR", "controller_error">>,
       <<"INDEX_ADDED", "index_added">>,
       <<"INDEX_REMOVED", "index_removed">>,
       <<"NEW_SETTINGS", "new_settings">>,
       <<"DISCOVERING", "discovering">>,
       <<"NEW_LINK_KEY", "new_link_key">>,
       <<"DEVICE_CONNECTED", "connected">>,
       <<"DEVICE_DISCONNECTED", "disconnected">>,
       <<"CONNECT_FAILED", "conn_failed">>,
       <<"AUTH_FAILED", "auth_failed">>,
       <<"LOCAL_NAME_CHANGED", "local_name_changed">>,
       <<"DEVICE_FOUND", "device_found">>,
       <<"PIN_CODE_REQUEST", "request_pin">>,
       <<"USER_CONFIRM_REQUEST", "user_confirm">> >>

RECURSIVE RegisterFrom(_, _, _)
RegisterFrom(s, index, k) ==
    IF k > Len(EventHandlers) THEN s
    ELSE RegisterFrom(mgmt_register(s, EventHandlers[k][1], index, EventHandlers[k][2]),
                      index, k + 1)

---------------------------------------------------------------------------
(* The state machine *)

Idle == [frame |-> NoFrame, invoked |-> <<>>, completed |-> <<>>, sent |-> <<>>,
         ret |-> 0, err |-> 0, out |-> 0]

StepOf(f, s) == [frame |-> f, invoked |-> s.invoked, completed |-> s.completed,
                 sent |-> s.sent, ret |-> s.ret, err |-> s.err, out |-> s.out]

Commit(s) ==
    /\ pending' = s.pending
    /\ discovery' = s.discovery
    /\ monitor' = s.monitor
    /\ table' = s.table
    /\ hist' = s.hist
    /\ subs' = s.subs
    /\ quits' = s.quits
    /\ stdin' = s.stdin

\* the scenario of the discovery state machine: the successful start
\* response, then found-device events, then the stopped event of the
\* session's controller; any other frame leaves the scenario
ScenAfter(sc, f) ==
    CASE sc = "s0" /\ f = Rsp("START_DISCOVERY", CmdIndex(optIndex), 0) -> "s1"
      [] sc = "s1" /\ f.kind = "evt" /\ f.code = "DEVICE_FOUND" -> "s1"
      [] sc = "s1" /\ f = Evt("DISCOVERING", CmdIndex(optIndex), "ok", NoDev, 0) -> "s2"
      [] OTHER -> "off"

\* nothing has arrived on the transport (midwait: the arrivals during the
\* current prompt; early: the arrivals before the loop ran)
NoTraffic == [queue |-> <<>>, arrived |-> <<>>, handled |-> <<>>, midwait |-> 0,
              early |-> 0]

Init ==
    /\ pc = "start"
    /\ cmd \in Commands
    /\ optIndex \in OptIndices
    /\ argv = ArgvOf(optIndex)
    /\ monitor = FALSE
    /\ discovery = FALSE
    /\ resolve_names \in (IF cmd = "find" THEN BOOLEAN ELSE {TRUE})
    /\ table = <<>>
    /\ hist = <<>>
    /\ subs = <<>>
    /\ quits = 0
    /\ open = TRUE
    /\ stdin = <<>>
    /\ step = Idle
    /\ scen = IF cmd = "find" THEN "s0" ELSE "off"
    /\ pending = 0
    /\ inbox = NoTraffic

\* main: command[i].func(mgmt, index, argc, argv)
main_command ==
    /\ pc = "start"
    /\ \E ok \in BOOLEAN :
         LET s == Command(cmd, Cur, optIndex, [ok |-> ok, ub |-> FALSE, ok2 |-> TRUE])
         IN /\ Commit(s)
            /\ step' = StepOf(NoFrame, s)
            /\ pc' = IF s.exit THEN "exited" ELSE "register"
    /\ UNCHANGED <<argv, cmd, optIndex, resolve_names, open, scen, inbox>>

\* main: the mgmt_register calls, all with main's index
main_register ==
    /\ pc = "register"
    /\ Commit(RegisterFrom(Cur, optIndex, 1))
    /\ step' = Idle
    /\ pc' = "loop"
    /\ UNCHANGED <<argv, cmd, optIndex, resolve_names, open, scen, inbox>>

\* one iteration of g_main_loop_run: frame f is read and handled; the loop
\* is left after an iteration that called g_main_loop_quit.  e.ok, whether
\* the transport accepts a write (e.ok2: the writes after a step's first),
\* is a choice only in a step that submits; e.ub, whether a write past the
\* end of a buffer aborts the process, only in a step that makes such a write
HandleEnv(f, at, e) ==
    /\ pc = at
    /\ LET s == can_read_data(Cur, f, resolve_names, e)
       IN /\ e.ok \/ s.sent # <<>>
          /\ e.ub => s.exit
          /\ Len(s.hist) <= MaxCalls
          /\ Commit(s)
          /\ step' = StepOf(f, s)
          /\ pc' = IF s.exit THEN "exited"
                   ELSE IF s.quits > quits THEN "cancel" ELSE "loop"
    /\ scen' = ScenAfter(scen, f)
    /\ UNCHANGED <<argv, cmd, optIndex, resolve_names, open>>

Handle(f, at) ==
    \E ok \in BOOLEAN, ub \in BOOLEAN : HandleEnv(f, at, [ok |-> ok, ub |-> ub, ok2 |-> TRUE])

\* the frame comes straight from the peer: nothing is waiting on the transport
Deliver(f) == Handle(f, "loop") /\ UNCHANGED inbox

loop_response == \E f \in RspFrames : Deliver(f)

loop_event == \E f \in EvtFrames : Deliver(f)

\* the transport fails or is closed by the peer: the loop ends
transport_error ==
    /\ pc = "loop"
    /\ pc' = "cancel"
    /\ step' = Idle
    /\ scen' = "off"
    /\ UNCHANGED <<argv, cmd, optIndex, monitor, discovery, resolve_names, table, hist,
                   subs, quits, open, stdin, pending, inbox>>

\* main without its mgmt_cancel_all call: the outstanding calls are left behind
main_no_cancel_all ==
    /\ pc = "cancel"
    /\ pc' = "unregister"
    /\ step' = Idle
    /\ UNCHANGED <<argv, cmd, optIndex, monitor, discovery, resolve_names, table, hist,
                   subs, quits, open, stdin, scen, pending, inbox>>

\* main: mgmt_cancel_all(mgmt)
main_cancel_all ==
    /\ pc = "cancel"
    /\ Commit(mgmt_cancel_all(Cur))
    /\ step' = Idle
    /\ pc' = "unregister"
    /\ UNCHANGED <<argv, cmd, optIndex, resolve_names, open, scen, inbox>>

\* main without its mgmt_unregister_all call: the subscriptions are left behind
main_no_unregister_all ==
    /\ pc = "unregister"
    /\ pc' = "unref"
    /\ step' = Idle
    /\ UNCHANGED <<argv, cmd, optIndex, monitor, discovery, resolve_names, table, hist,
                   subs, quits, open, stdin, scen, pending, inbox>>

\* main: mgmt_unregister_all(mgmt)
main_unregister_all ==
    /\ pc = "unregister"
    /\ Commit(mgmt_unregister_all(Cur))
    /\ step' = Idle
    /\ pc' = "unref"
    /\ UNCHANGED <<argv, cmd, optIndex, resolve_names, open, scen, inbox>>

\* main: mgmt_unref(mgmt), the transport is released
main_unref ==
    /\ pc = "unref"
    /\ open' = FALSE
    /\ pc' = "done"
    /\ UNCHANGED <<argv, cmd, optIndex, monitor, discovery, resolve_names, table, hist,
                   subs, quits, stdin, step, scen, pending, inbox>>

\* a run with an operator at the prompt: monitor or find, controller 0 or
\* every controller
PromptInit ==
    /\ pc = "start"
    /\ cmd \in {"monitor", "find"}
    /\ optIndex \in OptIndices
    /\ argv = ArgvOf(optIndex)
    /\ monitor = FALSE
    /\ discovery = FALSE
    /\ resolve_names = TRUE
    /\ table = <<>>
    /\ hist = <<>>
    /\ subs = <<>>
    /\ quits = 0
    /\ open = TRUE
    /\ stdin \in Inputs
    /\ step = Idle
    /\ scen = "off"
    /\ pending = 0
    /\ inbox = NoTraffic

prompt_response == \E f \in PromptRspFrames : Deliver(f)

prompt_event == \E f \in PromptEvtFrames : Deliver(f) /\ Len(hist') <= MaxReplies

Next ==
    \/ main_command
    \/ main_register
    \/ loop_response
    \/ loop_event
    \/ transport_error
    \/ main_cancel_all
    \/ main_unregister_all
    \/ main_unref

Spec == Init /\ [][Next]_vars

PromptNext ==
    \/ main_command
    \/ main_register
    \/ prompt_response
    \/ prompt_event
    \/ transport_error
    \/ main_cancel_all
    \/ main_unregister_all
    \/ main_unref

PromptSpec == PromptInit /\ [][PromptNext]_vars

---------------------------------------------------------------------------
(* An info run: for one controller, or for all that the index list names *)

InfoFrames ==
    { [Rsp("READ_INDEX_LIST", MGMT_INDEX_NONE, 0) EXCEPT !.val = v] : v \in 0..(Len(IndexLists) - 1) }
    \cup { Rsp("READ_INDEX_LIST", MGMT_INDEX_NONE, 1),
           RspLen("READ_INDEX_LIST", MGMT_INDEX_NONE, 0, "short") }
    \cup { RspLen("READ_INFO", i, st, l) : i \in Indices, st \in {0, 1}, l \in {"ok", "short"} }

InfoInit ==
    /\ pc = "start"
    /\ cmd = "info"
    /\ optIndex \in OptIndices
    /\ argv = ArgvOf(optIndex)
    /\ monitor = FALSE
    /\ discovery = FALSE
    /\ resolve_names = TRUE
    /\ table = <<>>
    /\ hist = <<>>
    /\ subs = <<>>
    /\ quits = 0
    /\ open = TRUE
    /\ stdin = <<>>
    /\ step = Idle
    /\ scen = "off"
    /\ pending = 0
    /\ inbox = NoTraffic

info_response ==
    \E f \in InfoFrames, ok \in BOOLEAN, ok2 \in BOOLEAN :
        /\ HandleEnv(f, "loop", [ok |-> ok, ub |-> FALSE, ok2 |-> ok2])
        /\ ok2 \/ Len(step'.sent) >= 2
        /\ UNCHANGED inbox

info_event ==
    \E f \in { Evt("NEW_SETTINGS", i, "ok", NoDev, 0) : i \in Indices } : Deliver(f)

InfoNext ==
    \/ main_command
    \/ main_register
    \/ info_response
    \/ info_event
    \/ transport_error
    \/ main_cancel_all
    \/ main_unregister_all
    \/ main_unref

InfoSpec == InfoInit /\ [][InfoNext]_vars

---------------------------------------------------------------------------
(* A monitor run with the transport's receive queue made explicit, and the *)
(* prompts taken in two steps: the handler prints its prompt and blocks in *)
(* fgets, then the operator's line is there and the handler goes on.       *)

\* at most this many frames arrive in such a run
MaxFrames == 4

QueueFrames ==
    { Evt("PIN_CODE_REQUEST", 0, "ok", [bdaddr |-> "AA", type |-> 0], 0),
      Evt("USER_CONFIRM_REQUEST", 0, "ok", [bdaddr |-> "BB", type |-> 1], 1),
      Evt("NEW_SETTINGS", 0, "ok", NoDev, 0),
      Rsp("PIN_CODE_NEG_REPLY", 0, 0),
      Rsp("USER_CONFIRM_REPLY", 0, 1) }

QueueInit ==
    /\ pc = "start"
    /\ cmd = "monitor"
    /\ optIndex \in {0, MGMT_INDEX_NONE}
    /\ argv = ArgvOf(optIndex)
    /\ monitor = FALSE
    /\ discovery = FALSE
    /\ resolve_names = TRUE
    /\ table = <<>>
    /\ hist = <<>>
    /\ subs = <<>>
    /\ quits = 0
    /\ open = TRUE
    /\ stdin \in { <<>>, <<"\n", "Y", "\n">> }
    /\ step = Idle
    /\ scen = "off"
    /\ pending = 0
    /\ inbox = NoTraffic

\* a frame whose handler asks the operator: a well-formed PIN or
\* user-confirmation request that a subscription takes
AsksOperator(f) ==
    /\ f.kind = "evt"
    /\ f.code \in {"PIN_CODE_REQUEST", "USER_CONFIRM_REQUEST"}
    /\ f.len = "ok"
    /\ Matching(subs, f) # {}

\* the frame the loop reads next: the one that arrived first
TransportNext(q) == Head(q)

\* the peer sends a frame; it waits on the transport until the loop reads it
transport_arrive ==
    /\ pc \in {"loop", "prompt"}
    /\ Len(inbox.arrived) < MaxFrames
    /\ \E f \in QueueFrames :
         inbox' = [inbox EXCEPT !.queue = Append(@, f),
                                !.arrived = Append(@, f),
                                !.midwait = IF pc = "prompt" THEN @ + 1 ELSE @]
    /\ UNCHANGED <<argv, pc, cmd, optIndex, monitor, discovery, resolve_names, table, hist,
                   subs, quits, open, stdin, step, scen, pending>>

\* the loop reads the next frame while the program is at pc = at, and handles it
ReadNext(at) ==
    /\ inbox.queue # <<>>
    /\ ~AsksOperator(TransportNext(inbox.queue))
    /\ Handle(TransportNext(inbox.queue), at)
    /\ inbox' = [inbox EXCEPT !.queue = Tail(@),
                              !.handled = Append(@, TransportNext(inbox.queue))]

\* a loop that is entered again while a handler waits for the operator
loop_next_reentrant == ReadNext("loop") \/ ReadNext("prompt")

\* a loop whose source dispatches as soon as a frame is there, registered
\* handlers or not
loop_next_before_register == ReadNext("loop") \/ ReadNext("register")

\* one iteration of g_main_loop_run; the loop is not re-entered from a handler
loop_next == ReadNext("loop")

\* request_pin / user_confirm up to their fgets call: the prompt is printed
\* and the handler waits for the operator
prompt_wait ==
    /\ pc = "loop"
    /\ inbox.queue # <<>>
    /\ AsksOperator(TransportNext(inbox.queue))
    /\ pc' = "prompt"
    /\ step' = [Idle EXCEPT !.frame = TransportNext(inbox.queue)]
    /\ inbox' = [inbox EXCEPT !.queue = Tail(@),
                              !.handled = Append(@, TransportNext(inbox.queue)),
                              !.midwait = 0]
    /\ UNCHANGED <<argv, cmd, optIndex, monitor, discovery, resolve_names, table, hist,
                   subs, quits, open, stdin, scen, pending>>

\* request_pin / user_confirm from their fgets call on: the line is read
\* (or the input is at its end) and the reply is submitted
prompt_input ==
    /\ pc = "prompt"
    /\ Handle(step.frame, "prompt")
    /\ UNCHANGED inbox

QueueNext ==
    \/ main_command
    \/ main_register
    \/ transport_arrive
    \/ loop_next
    \/ prompt_wait
    \/ prompt_input
    \/ transport_error
    \/ main_cancel_all
    \/ main_unregister_all
    \/ main_unref

QueueSpec == QueueInit /\ [][QueueNext]_vars

---------------------------------------------------------------------------
(* The start of a find run: the peer may answer the command's request, and *)
(* send events, before main has registered its handlers                    *)

MaxEarly == 3

StartFrames ==
    { Rsp("START_DISCOVERY", 0, 0),
      Rsp("START_DISCOVERY", 0, 1),
      Evt("DEVICE_FOUND", 0, "ok", [bdaddr |-> "AA", type |-> 0], 1),
      Evt("DISCOVERING", 0, "ok", NoDev, 0) }

StartInit ==
    /\ pc = "start"
    /\ cmd = "find"
    /\ optIndex \in {0, MGMT_INDEX_NONE}
    /\ argv = ArgvOf(optIndex)
    /\ monitor = FALSE
    /\ discovery = FALSE
    /\ resolve_names = TRUE
    /\ table = <<>>
    /\ hist = <<>>
    /\ subs = <<>>
    /\ quits = 0
    /\ open = TRUE
    /\ stdin = <<>>
    /\ step = Idle
    /\ scen = "off"
    /\ pending = 0
    /\ inbox = NoTraffic

\* the peer sends a frame once the command's request is out; the frame
\* waits on the transport until the loop reads it
peer_send ==
    /\ pc \in {"register", "loop"}
    /\ Len(inbox.arrived) < MaxEarly
    /\ \E f \in StartFrames :
         inbox' = [inbox EXCEPT !.queue = Append(@, f),
                                !.arrived = Append(@, f),
                                !.early = IF pc = "register" THEN @ + 1 ELSE @]
    /\ UNCHANGED <<argv, pc, cmd, optIndex, monitor, discovery, resolve_names, table, hist,
                   subs, quits, open, stdin, step, scen, pending>>

StartNext ==
    \/ main_command
    \/ main_register
    \/ peer_send
    \/ loop_next
    \/ transport_error
    \/ main_cancel_all
    \/ main_unregister_all
    \/ main_unref

StartSpec == StartInit /\ [][StartNext]_vars

---------------------------------------------------------------------------
(* A run from its command line on: main's option loop, then the command    *)

OptFrames ==
    { Rsp("SET_POWERED", 1, 0),
      Rsp("START_DISCOVERY", 0, 0),
      Rsp("START_DISCOVERY", 1, 1),
      Rsp("PIN_CODE_REPLY", 1, 0),
      Evt("DEVICE_FOUND", 0, "ok", [bdaddr |-> "AA", type |-> 0], 1),
      Evt("DISCOVERING", 0, "ok", NoDev, 0),
      Evt("NEW_SETTINGS", 1, "ok", NoDev, 0),
      Evt("PIN_CODE_REQUEST", 1, "ok", [bdaddr |-> "BB", type |-> 1], 0) }

\* uint16_t index = MGMT_INDEX_NONE; static bool monitor = false
OptInit ==
    /\ argv \in [index : IndexArgs \cup {NoArg}, verbose : BOOLEAN]
    /\ pc = "getopt"
    /\ cmd \in {"find", "power"}
    /\ optIndex = MGMT_INDEX_NONE
    /\ monitor = FALSE
    /\ discovery = FALSE
    /\ resolve_names = TRUE
    /\ table = <<>>
    /\ hist = <<>>
    /\ subs = <<>>
    /\ quits = 0
    /\ open = TRUE
    /\ stdin = <<"1", "\n">>
    /\ step = Idle
    /\ scen = "off"
    /\ pending = 0
    /\ inbox = NoTraffic

\* main: the getopt_long loop over --index and --verbose
main_getopt ==
    /\ pc = "getopt"
    /\ optIndex' = IF argv.index = NoArg THEN optIndex ELSE OptIndex(argv.index)
    /\ monitor' = IF argv.verbose THEN TRUE ELSE monitor
    /\ pc' = "start"
    /\ step' = Idle
    /\ UNCHANGED <<argv, cmd, discovery, resolve_names, table, hist, subs, quits,
                   open, stdin, scen, pending, inbox>>

opt_frame == \E f \in OptFrames : Deliver(f)

OptNext ==
    \/ main_getopt
    \/ main_command
    \/ main_register
    \/ opt_frame
    \/ transport_error
    \/ main_cancel_all
    \/ main_unregister_all
    \/ main_unref

OptSpec == OptInit /\ [][OptNext]_vars

---------------------------------------------------------------------------
(* Properties *)

CallIds == 1..Len(hist)

InTable(id) == \E i \in 1..Len(table) : table[i].id = id

Outcomes(id) == hist[id].fired + hist[id].cancelled

\* C1: every accepted request gets exactly one of {its completion
\* continuation is invoked, it is cancelled}: never both and never twice at
\* any moment, it is outstanding exactly while it has had neither, and once
\* main's teardown has run none is left with neither.
C1_ExactlyOneOutcome ==
    /\ \A id \in CallIds : Outcomes(id) <= 1
    /\ \A id \in CallIds : InTable(id) <=> Outcomes(id) = 0
    /\ pc = "done" => \A id \in CallIds : Outcomes(id) = 1

\* a finished run in which one call was completed and another was cancelled
C1_Witness ==
    /\ pc = "done"
    /\ \E id \in CallIds : hist[id].fired = 1
    /\ \E id \in CallIds : hist[id].cancelled = 1

\* C2: a cancelled call is removed from the table, its completion
\* continuation has not been and is never invoked, and its destructor (the
\* g_free of the command_data send_cmd attached) has run exactly once; after
\* mgmt_cancel_all the table is empty.
C2_CancelRunsDestructorOnly ==
    /\ \A id \in CallIds :
          hist[id].cancelled >= 1 =>
              /\ hist[id].cancelled = 1
              /\ hist[id].fired = 0
              /\ ~InTable(id)
              /\ hist[id].destroyed = IF hist[id].destroy # "NULL" THEN 1 ELSE 0
              /\ hist[id].cb = "cmd_rsp" => hist[id].destroyed = 1
    /\ pc \in {"unregister", "unref", "done"} => table = <<>>

\* teardown cancelled a send_cmd request, and its command_data was freed
C2_Witness ==
    /\ pc = "done"
    /\ \E id \in CallIds :
          /\ hist[id].cb = "cmd_rsp"
          /\ hist[id].cancelled = 1
          /\ hist[id].destroyed = 1

\* the step is a command's request submission by main
CommandSubmitted == pc \in {"register", "exited"} /\ step.sent # <<>>

\* C3: a request-submission entry point returns zero if and only if the
\* transport did not accept the request; after a non-zero return one entry
\* is pending, after a zero return none is (checked on the command's
\* submission, through mgmt_send for find and through send_cmd for power).
C3_ZeroIffRejected ==
    CommandSubmitted =>
        /\ step.ret = 0 <=> step.sent[1].id = 0
        /\ step.ret # 0 => Len(table) = 1
        /\ step.ret = 0 => table = <<>>

\* the latest step handled an event frame / a response frame
EventStep == step.frame.kind = "evt"

ResponseStep == step.frame.kind = "rsp"

\* how often x occurs in a sequence
Count(seq, x) == Cardinality({ k \in 1..Len(seq) : seq[k] = x })

\* C4: for an event frame (e, i) a subscription is invoked exactly once if
\* its event code is e and its index is ANY or i, and not at all otherwise;
\* the subscriptions invoked for one frame run in registration order; and
\* the registry still holds every subscription main registered.
C4_DispatchByCodeAndIndex ==
    EventStep =>
        /\ \A i \in 1..Len(subs) :
              Count(step.invoked, i) =
                  IF /\ subs[i].event = step.frame.code
                     /\ (subs[i].index = MGMT_INDEX_NONE \/ subs[i].index = step.frame.index)
                  THEN 1 ELSE 0
        /\ \A k \in 1..Len(step.invoked) :
              /\ step.invoked[k] \in 1..Len(subs)
              /\ k > 1 => step.invoked[k - 1] < step.invoked[k]
        /\ Len(subs) = Len(EventHandlers)
        /\ \A i \in 1..Len(subs) :
              subs[i] = [event |-> EventHandlers[i][1], index |-> optIndex,
                         cb |-> EventHandlers[i][2]]

\* an event of controller 1 reached the handler registered for controller 1
C4_Witness ==
    /\ EventStep
    /\ optIndex = 1
    /\ step.frame.index = 1
    /\ step.invoked # <<>>

\* C5: a frame takes exactly one path: a response frame invokes no event
\* subscriber and completes the pending call of its key when there is one;
\* an event frame completes no pending call and reaches its subscribers.
C5_ExclusiveClassification ==
    /\ ResponseStep =>
          /\ step.invoked = <<>>
          /\ Len(step.completed) <= 1
          /\ step.completed = <<>> =>
                ~\E i \in 1..Len(table) :
                    table[i].op = step.frame.code /\ table[i].index = step.frame.index
    /\ EventStep =>
          /\ step.completed = <<>>
          /\ step.invoked = <<>> =>
                ~\E i \in 1..Len(subs) :
                    /\ subs[i].event = step.frame.code
                    /\ subs[i].index \in {MGMT_INDEX_NONE, step.frame.index}

\* an event was delivered to a subscriber while calls were outstanding
C5_Witness ==
    /\ EventStep
    /\ step.invoked # <<>>
    /\ table # <<>>

\* C6: in a find run with a successful start response, then found-device
\* events, then the stopped event: nothing has happened before the start
\* response (Starting), the discovery flag is set and the loop runs from the
\* start response on (Discovering), and the stop signal is raised once, by
\* the stopped event (Idle); discovery is set only by the successful start
\* response and the stop signal is never raised twice.
C6_DiscoveryLifecycle ==
    /\ quits <= 1
    /\ discovery => cmd = "find" /\ Len(hist) >= 1 /\ hist[1].cb = "find_rsp" /\ hist[1].fired = 1
    /\ scen = "s0" => ~discovery /\ quits = 0
    /\ scen = "s1" => discovery /\ quits = 0 /\ pc = "loop"
    /\ scen = "s2" => discovery /\ quits = 1 /\ pc \in {"cancel", "unregister", "unref", "done"}

\* the scenario ran to its end with two found-device events asking for confirmation
C6_Witness ==
    /\ scen = "s2"
    /\ pc = "done"
    /\ Len(hist) = 3

\* a well-formed found-device event with the confirm-name flag was handled
FlaggedFound ==
    /\ EventStep
    /\ step.frame.code = "DEVICE_FOUND"
    /\ step.frame.len = "ok"
    /\ step.frame.val = 1
    /\ step.invoked # <<>>

\* the confirm-name requests submitted (accepted or not) by the latest step
ConfirmSent == Cardinality({ k \in 1..Len(step.sent) : step.sent[k].op = "CONFIRM_NAME" })

C8_ConfirmNamePayload ==
    FlaggedFound /\ discovery =>
        /\ Len(step.sent) = 1
        /\ step.sent[1].op = "CONFIRM_NAME"
        /\ step.sent[1].index = step.frame.index
        /\ step.sent[1].param.addr = step.frame.addr
        /\ ~resolve_names => step.sent[1].param.name_known = 1
        /\ resolve_names => step.sent[1].param.name_known = 0

\* the LE Public device of controller 1 was found, names are not resolved
C8_Witness ==
    /\ FlaggedFound
    /\ discovery
    /\ ~resolve_names
    /\ step.frame.index = 1
    /\ step.frame.addr = [bdaddr |-> "BB", type |-> 1]

\* a well-formed discovering event reporting "stopped"
StoppedEvent(f) ==
    f.kind = "evt" /\ f.code = "DISCOVERING" /\ f.len = "ok" /\ f.val = 0

\* C9: once the start-discovery request of a find run has succeeded, the
\* stop signal is raised only by a discovering event reporting stopped: by
\* no response frame and by no other event.
C9_OnlyStoppedEventEndsFind ==
    [][(cmd = "find" /\ discovery /\ quits' > quits) => StoppedEvent(step'.frame)]_vars

\* C10: a stopped event reported for a controller other than the one the
\* session was started on leaves the session running, also when no --index
\* was given.
C10_OtherControllerStopIgnored ==
    [][(/\ cmd = "find" /\ discovery /\ pc = "loop"
        /\ StoppedEvent(step'.frame)
        /\ step'.frame.index # CmdIndex(optIndex))
       => quits' = quits /\ pc' = "loop"]_vars

Teardown == {"cancel", "unregister", "unref", "done"}

\* the latest step completed the start-discovery request with a failure
StartFailedStep ==
    /\ ResponseStep
    /\ step.frame.code = "START_DISCOVERY"
    /\ step.frame.status # 0
    /\ step.completed # <<>>

\* the start-discovery request of this find run was answered, with a failure
FindFailed ==
    /\ cmd = "find"
    /\ Len(hist) >= 1
    /\ hist[1].cb = "find_rsp"
    /\ hist[1].fired = 1
    /\ ~discovery

\* C11: a start-discovery response with a non-success status is reported,
\* leaves the discovery flag false and raises the stop signal, so the run
\* goes to its teardown; from then on the flag stays false and the loop is
\* not entered again, and no confirm-name request is submitted at any time
\* of such a run.
C11_FailedStartEndsRun ==
    /\ StartFailedStep =>
          /\ step.err = 1
          /\ step.sent = <<>>
          /\ pc = "cancel"
    /\ FindFailed =>
          /\ quits = 1
          /\ pc \in Teardown
          /\ \A id \in CallIds : hist[id].op # "CONFIRM_NAME"
    /\ ~discovery => ConfirmSent = 0

\* a find run whose start failed ran to its end, after a found-device event
\* with the confirm-name flag and a PIN request had been handled
C11_Witness ==
    /\ FindFailed
    /\ pc = "done"
    /\ Len(hist) = 2

\* the latest step completed a confirm-name request with a failure status
\* or with return parameters of an unexpected length
ConfirmNameFailedStep ==
    /\ ResponseStep
    /\ step.frame.code = "CONFIRM_NAME"
    /\ step.completed # <<>>
    /\ (step.frame.status # 0 \/ step.frame.len # "ok")

\* C12: the step that completes a confirm-name request with a non-success
\* status or an unexpected length reports it once and does nothing else: the
\* stop signal is not raised, the discovery flag keeps its value, the loop
\* goes on and the subscriptions stay, so later events are still handled.
C12_ConfirmNameFailureContained ==
    [][ConfirmNameFailedStep' =>
          /\ step'.err = 1
          /\ step'.sent = <<>>
          /\ quits' = quits
          /\ discovery' = discovery
          /\ subs' = subs
          /\ pc' = "loop"]_vars

\* after a failed confirm-name exchange the session is still discovering
C12_Witness ==
    /\ ConfirmNameFailedStep
    /\ step.frame.len = "zero"
    /\ discovery
    /\ pc = "loop"

\* the latest step delivered a well-formed event with code c to a subscriber
PromptStep(c) ==
    /\ EventStep
    /\ step.frame.code = c
    /\ step.frame.len = "ok"
    /\ step.invoked # <<>>

\* the line the operator entered: the unread input up to its line
\* terminator, the terminator not included
LineOf(in) == IF FirstNL(in) = 0 THEN in ELSE SubSeq(in, 1, FirstNL(in) - 1)

\* the operator input is at its end, or the line entered is empty
NoInput(in) == in = <<>> \/ in[1] = "\n"

\* C13: on a well-formed PIN-request event, absent input or an empty line
\* yields one PIN-negative reply for the event's address and no PIN reply;
\* any other input yields one PIN reply for the event's address whose PIN is
\* the line entered, without its terminator, and whose pin_len is the length
\* of that PIN.
C13_PinReplyCarriesLine ==
    [][(pc = "loop" /\ PromptStep("PIN_CODE_REQUEST")') =>
          /\ Len(step'.sent) = 1
          /\ step'.sent[1].index = step'.frame.index
          /\ step'.sent[1].param.addr = step'.frame.addr
          /\ IF NoInput(stdin)
             THEN step'.sent[1].op = "PIN_CODE_NEG_REPLY"
             ELSE /\ step'.sent[1].op = "PIN_CODE_REPLY"
                  /\ step'.sent[1].param.pin_code = LineOf(stdin)
                  /\ step'.sent[1].param.pin_len = Len(LineOf(stdin))]_vars

\* C14: on a well-formed user-confirmation-request event, with the hint set
\* or not, input whose first character is y or Y yields one positive
\* confirmation reply, and any other input, the empty line and absent input
\* included, yields one negative confirmation reply, for the event's
\* controller and device address.
C14_ConfirmByFirstCharacter ==
    [][(pc = "loop" /\ PromptStep("USER_CONFIRM_REQUEST")') =>
          /\ Len(step'.sent) = 1
          /\ step'.sent[1].index = step'.frame.index
          /\ step'.sent[1].param.addr.bdaddr = step'.frame.addr.bdaddr
          /\ step'.sent[1].op =
                IF stdin # <<>> /\ stdin[1] \in {"y", "Y"}
                THEN "USER_CONFIRM_REPLY" ELSE "USER_CONFIRM_NEG_REPLY"]_vars

\* the operator answered "yes" to a request to compare the displayed value
C14_Witness ==
    /\ PromptStep("USER_CONFIRM_REQUEST")
    /\ step.frame.val = 0
    /\ step.sent[1].op = "USER_CONFIRM_REPLY"
    /\ stdin = <<"n", "o">>

\* C15: a well-formed PIN-request event submits exactly one request, a PIN
\* reply or a PIN-negative reply; a well-formed user-confirmation-request
\* event submits exactly one request, a positive or a negative confirmation
\* reply; and no step that handles a response frame submits a request.
C15_OneReplyPerPrompt ==
    /\ PromptStep("PIN_CODE_REQUEST") =>
          /\ Len(step.sent) = 1
          /\ step.sent[1].op \in {"PIN_CODE_REPLY", "PIN_CODE_NEG_REPLY"}
    /\ PromptStep("USER_CONFIRM_REQUEST") =>
          /\ Len(step.sent) = 1
          /\ step.sent[1].op \in {"USER_CONFIRM_REPLY", "USER_CONFIRM_NEG_REPLY"}
    /\ ResponseStep => step.sent = <<>>

\* a PIN reply was completed with a failure status
C15_Witness ==
    /\ ResponseStep
    /\ step.frame.code = "PIN_CODE_REPLY"
    /\ step.frame.status # 0
    /\ step.completed # <<>>

\* C16: in a monitor run no frame raises the stop signal, whether an event
\* or a response, the failed response to a reply sent from a prompt included.
C16_MonitorNeverQuits ==
    [][(cmd = "monitor" /\ pc = "loop") => quits' = quits]_vars

\* the latest step delivered an event of one of the four codes, with a
\* payload of length l, to a subscriber
LenStep(l) ==
    /\ EventStep
    /\ step.frame.code \in {"DISCOVERING", "DEVICE_FOUND",
                             "PIN_CODE_REQUEST", "USER_CONFIRM_REQUEST"}
    /\ step.frame.len = l
    /\ step.invoked # <<>>

\* the step has no protocol effect
NoEffect ==
    /\ step'.sent = <<>>
    /\ stdin' = stdin
    /\ discovery' = discovery
    /\ quits' = quits
    /\ table' = table
    /\ pc' = "loop"

\* C17 (as amended): a discovering, found-device, PIN-request or
\* user-confirmation-request event whose payload is too short, and a
\* found-device, PIN-request or user-confirmation-request event whose
\* payload is too long, is reported and has no protocol effect; a
\* discovering event whose payload is too long is handled like a
\* well-formed one, so one that reports "stopped" during a discovery raises
\* the stop signal.
C17_WrongLengthDropped ==
    [][/\ (pc = "loop" /\ LenStep("short")') => NoEffect /\ step'.err = 1
       /\ (pc = "loop" /\ LenStep("long")' /\ step'.frame.code # "DISCOVERING")
             => NoEffect /\ step'.err = 1
       /\ (pc = "loop" /\ LenStep("long")' /\ step'.frame.code = "DISCOVERING")
             => /\ step'.err = 0
                /\ quits' = IF discovery /\ step'.frame.val = 0 THEN quits + 1 ELSE quits]_vars

\* a PIN request that was too short was turned away with a line of operator
\* input waiting
C17_Witness ==
    /\ LenStep("short")
    /\ step.frame.code = "PIN_CODE_REQUEST"
    /\ stdin = LongLine
    /\ discovery

\* C17 (as claimed): an event of one of the four codes with a payload of a
\* wrong length, too short or too long, has no protocol effect.
C17_Original ==
    [][(pc = "loop" /\ (LenStep("short")' \/ LenStep("long")')) => NoEffect]_vars

\* the entries of a table for the key (op, index)
ForKey(t, op, index) == { i \in 1..Len(t) : t[i].op = op /\ t[i].index = index }

\* C18: a response frame whose key has no pending entry invokes no
\* continuation and no subscriber and leaves the table, and everything else,
\* as it was; a response frame whose key has one pending entry leaves none
\* for that key, so that of two response frames for the key of one call the
\* second is dropped and the table holds no entry for the key; and no
\* continuation is ever invoked twice.
C18_UnmatchedResponseDropped ==
    [][(pc = "loop" /\ ResponseStep') =>
          LET op == step'.frame.code
              index == step'.frame.index
          IN /\ ForKey(table, op, index) = {} =>
                   /\ step'.completed = <<>>
                   /\ step'.invoked = <<>>
                   /\ step'.sent = <<>>
                   /\ table' = table
                   /\ hist' = hist
                   /\ quits' = quits
                   /\ discovery' = discovery
                   /\ pc' = "loop"
             /\ Cardinality(ForKey(table, op, index)) <= 1 => ForKey(table', op, index) = {}
             /\ \A id \in 1..Len(hist') : hist'[id].fired <= 1]_vars

\* a second response arrived for the key of a call that the first response
\* had completed, while another call was outstanding
C18_Witness ==
    /\ ResponseStep
    /\ step.completed = <<>>
    /\ \E id \in CallIds :
          /\ hist[id].op = step.frame.code
          /\ hist[id].index = step.frame.index
          /\ hist[id].fired = 1
    /\ ForKey(table, step.frame.code, step.frame.index) = {}
    /\ table # <<>>

\* how often the completion continuations have run
Fired(h) == [id \in 1..Len(h) |-> h[id].fired]

\* C20: when the loop has stopped main runs mgmt_cancel_all, then
\* mgmt_unregister_all, then mgmt_unref, in this order and nothing else:
\* the table is empty before the subscriptions are dropped, table and
\* registry are empty before the transport is released, no teardown step
\* invokes a completion continuation or a subscriber, with no call or with
\* several outstanding, and nothing happens once the transport is released.
C20_TeardownOrder ==
    [][/\ (pc = "loop" /\ pc' # "loop") => pc' = "cancel"
       /\ pc = "cancel" => pc' = "unregister" /\ table' = <<>>
       /\ pc = "unregister" => pc' = "unref" /\ table = <<>> /\ subs' = <<>>
       /\ pc = "unref" => pc' = "done" /\ table = <<>> /\ subs = <<>> /\ open /\ ~open'
       /\ pc \in Teardown =>
             /\ Fired(hist') = Fired(hist)
             /\ step'.completed = <<>>
             /\ step'.invoked = <<>>
             /\ quits' = quits
       /\ open' # open => pc = "unref"
       /\ ~open => FALSE]_vars

\* the transport was released after two outstanding calls had been cancelled
C20_Witness ==
    /\ pc = "done"
    /\ ~open
    /\ Cardinality({ id \in CallIds : hist[id].cancelled = 1 }) >= 2

\* C19: the frames are read one at a time and in the order of their
\* arrival, none is lost and none is read twice; while a prompt waits for
\* the operator no frame is read and nothing but arrivals happens; the
\* step that ends the wait submits the prompt's reply and reads no frame,
\* so the reply goes out before any frame that arrived during the wait is
\* handled.
C19_ArrivalOrderAcrossPrompts ==
    [][/\ inbox'.arrived = inbox'.handled \o inbox'.queue
       /\ Len(inbox'.handled) <= Len(inbox.handled) + 1
       /\ Len(inbox'.handled) = Len(inbox.handled) + 1 =>
             /\ pc = "loop"
             /\ step'.frame = inbox.queue[1]
       /\ pc = "prompt" =>
             /\ inbox'.handled = inbox.handled
             /\ pc' = "prompt" => step' = step /\ table' = table /\ stdin' = stdin
             /\ pc' # "prompt" =>
                   /\ Len(step'.sent) = 1
                   /\ step'.frame = step.frame
                   /\ inbox'.queue = inbox.queue]_vars

\* the operator answered a PIN prompt during which two frames had arrived;
\* both are still waiting when the reply has been submitted
C19_Witness ==
    /\ pc = "loop"
    /\ PromptStep("PIN_CODE_REQUEST")
    /\ Len(step.sent) = 1
    /\ inbox.midwait = 2
    /\ Len(inbox.queue) = 2

\* the CallIDs outstanding for the key (op, index)
IdsForKey(t, op, index) == { t[i].id : i \in ForKey(t, op, index) }

\* the largest of a non-empty set of CallIDs: the one submitted last
Latest(ids) == CHOOSE id \in ids : \A other \in ids : other <= id

\* C21: a request submitted with the key of a request still outstanding is
\* accepted and gets a CallID of its own; the table holds every outstanding
\* call once, in the order of submission; and a response frame for a key
\* with several outstanding calls completes the one submitted last and
\* leaves the others outstanding.
C21_LastWriterWins ==
    [][/\ \A i, j \in 1..Len(table') : i < j => table'[i].id < table'[j].id
       /\ \A i \in 1..Len(table') : table'[i].id \in 1..Len(hist')
       /\ (pc = "loop" /\ EventStep' /\ Len(step'.sent) = 1 /\ step'.sent[1].id # 0) =>
             /\ step'.sent[1].id = Len(hist) + 1
             /\ table' = Append(table, table'[Len(table')])
             /\ table'[Len(table')].id = step'.sent[1].id
       /\ (pc = "loop" /\ ResponseStep'
           /\ ForKey(table, step'.frame.code, step'.frame.index) # {}) =>
             LET ids == IdsForKey(table, step'.frame.code, step'.frame.index)
             IN /\ step'.completed = << Latest(ids) >>
                /\ IdsForKey(table', step'.frame.code, step'.frame.index)
                      = ids \ { Latest(ids) }
                /\ Len(table') = Len(table) - 1]_vars

\* of two confirm-name requests outstanding for one controller the second
\* was completed by the response and the first is still outstanding
C21_Witness ==
    /\ ResponseStep
    /\ step.frame.code = "CONFIRM_NAME"
    /\ step.completed = <<3>>
    /\ \E i \in ForKey(table, "CONFIRM_NAME", step.frame.index) : table[i].id = 2

\* C22: at every moment at most one request is outstanding for an
\* (opcode, controller index) pair; two confirm-name requests for one
\* controller are never outstanding together.
C22_OneOutstandingPerKey ==
    \A i, j \in 1..Len(table) :
        (table[i].op = table[j].op /\ table[i].index = table[j].index) => i = j

\* the command's request is outstanding
CommandOutstanding == \E i \in 1..Len(table) : table[i].cb = "cmd_rsp"

\* C23: a run of a one-shot command ends (checked for power): a request the
\* transport did not take is reported and ends the run at once; a request
\* it took lets the run go on, and is outstanding for as long as the run
\* waits in the loop, so that its response ends the run; and the step that
\* handles the response, of any status, raises the stop signal.
C23_OneShotEnds ==
    cmd = "power" =>
        /\ (CommandSubmitted /\ step.sent[1].id = 0) => (pc = "exited" /\ step.err = 1)
        /\ (CommandSubmitted /\ step.sent[1].id # 0) => (pc = "register" /\ step.err = 0)
        /\ (pc \in {"register", "loop"}) => CommandOutstanding
        /\ (ResponseStep /\ step.frame.code = "SET_POWERED" /\ step.completed # <<>>) =>
              (quits = 1 /\ pc = "cancel")

\* C24: the reply to a well-formed user-confirmation-request event, positive
\* or negative, names the event's device: it is submitted for the event's
\* controller index and carries the event's device address and the event's
\* address type, whatever that type is.
C24_ConfirmReplyNamesDevice ==
    PromptStep("USER_CONFIRM_REQUEST") =>
        \A k \in 1..Len(step.sent) :
            /\ step.sent[k].index = step.frame.index
            /\ step.sent[k].param.addr.bdaddr = step.frame.addr.bdaddr
            /\ step.sent[k].param.addr.type = step.frame.addr.type

\* C27: the PIN reply submitted on a PIN-request event has a pin_len of at
\* most 16, the capacity of its PIN code field, and carries no more than 16
\* characters of PIN, whatever line the operator entered.
C27_PinLenWithinField ==
    PromptStep("PIN_CODE_REQUEST") =>
        \A k \in 1..Len(step.sent) :
            step.sent[k].op = "PIN_CODE_REPLY" =>
                /\ step.sent[k].param.pin_len <= PinCodeSize
                /\ Len(step.sent[k].param.pin_code) <= PinCodeSize

\* the operator input that follows the line entered, terminator included
AfterLine(in) == IF FirstNL(in) = 0 THEN <<>> ELSE SubSeq(in, FirstNL(in) + 1, Len(in))

\* C28: a prompt consumes exactly one line of operator input: after the
\* step that handles a well-formed PIN-request or user-confirmation-request
\* event, the unread input is what followed the line entered, so that no
\* character of that line is left for a later prompt.
C28_PromptConsumesOneLine ==
    [][(pc = "loop" /\ (PromptStep("PIN_CODE_REQUEST")' \/ PromptStep("USER_CONFIRM_REQUEST")')) =>
          stdin' = AfterLine(stdin)]_vars

\* the read-info requests submitted and not completed
ReadInfoOpen == { id \in CallIds : hist[id].op = "READ_INFO" /\ hist[id].fired = 0 }

\* C25: in every state of an info run, for all controllers or for one given
\* index, pending is the number of read-info requests that were submitted
\* and are not completed, and is not negative.
C25_PendingCountsReadInfo ==
    cmd = "info" => (pending = Cardinality(ReadInfoOpen) /\ pending >= 0)

\* the latest step completed a request by a response with opcode op
Completed(op) == ResponseStep /\ step.frame.code = op /\ step.completed # <<>>

\* every request of the latest step was taken by the transport
AllAccepted == \A k \in 1..Len(step.sent) : step.sent[k].id # 0

\* C26: in an info run over all controllers, a well-formed index-list
\* response with status 0 submits one read-info request per listed index, in
\* the order of the list, and raises the stop signal only if the list is
\* empty; and a read-info response, of any status and length, raises the
\* stop signal if and only if no read-info request is left outstanding.
C26_StopAfterEveryInfo ==
    [][(cmd = "info" /\ optIndex = MGMT_INDEX_NONE /\ pc = "loop") =>
          /\ (Completed("READ_INDEX_LIST")' /\ step'.frame.status = 0
                  /\ step'.frame.len = "ok" /\ AllAccepted') =>
                /\ [k \in 1..Len(step'.sent) |-> step'.sent[k].index] = IndexList(step'.frame.val)
                /\ \A k \in 1..Len(step'.sent) : step'.sent[k].op = "READ_INFO"
                /\ (quits' > quits) <=> (IndexList(step'.frame.val) = <<>>)
          /\ Completed("READ_INFO")' =>
                ((quits' > quits) <=> (ForKey(table', "READ_INFO", 0) \cup ForKey(table', "READ_INFO", 1) = {}))]_vars

\* C29: the discovery flag is set only by the step that completes the
\* start-discovery request with a response of status 0; and while it is not
\* set, in a monitor run and in a find run that waits for that response
\* alike, a found-device event with the confirm-name flag submits no
\* request and a discovering event reporting stopped does not raise the
\* stop signal.
C29_OnlyWhileDiscovering ==
    [][/\ (~discovery /\ discovery') =>
             (Completed("START_DISCOVERY")' /\ step'.frame.status = 0)
       /\ (~discovery /\ pc = "loop" /\ FlaggedFound') =>
             (step'.sent = <<>> /\ quits' = quits)
       /\ (~discovery /\ pc = "loop" /\ StoppedEvent(step'.frame) /\ step'.invoked # <<>>) =>
             (quits' = quits /\ pc' = "loop")]_vars

\* a find run that waits for its start-discovery response has handled a
\* stopped event and goes on
C29_Witness ==
    /\ cmd = "find"
    /\ ~discovery
    /\ \E i \in 1..Len(table) : table[i].op = "START_DISCOVERY"
    /\ StoppedEvent(step.frame)
    /\ step.invoked # <<>>
    /\ quits = 0
    /\ pc = "loop"

\* the subscriptions of main are all registered: one per event handler, in
\* the order of main, for main's index
AllRegistered(registry) ==
    /\ Len(registry) = Len(EventHandlers)
    /\ \A k \in 1..Len(registry) :
          /\ registry[k].event = EventHandlers[k][1]
          /\ registry[k].cb = EventHandlers[k][2]
          /\ registry[k].index = optIndex

\* C30: main submits the command's request while no handler is registered;
\* a frame is dispatched only by the running loop and only with all
\* fourteen subscriptions registered; the frames that arrive before that
\* wait on the transport and are then read in the order of their arrival,
\* none lost; and every event read is delivered to its handler.
C30_NothingBeforeRegistration ==
    [][/\ (pc = "start" /\ pc' = "register") =>
             (subs = <<>> /\ subs' = <<>> /\ Len(step'.sent) = 1 /\ step'.sent[1].id # 0)
       /\ (step'.frame # NoFrame /\ step' # step) =>
             (pc = "loop" /\ Len(subs) = 14 /\ AllRegistered(subs))
       /\ inbox'.arrived = inbox'.handled \o inbox'.queue
       /\ inbox'.handled # inbox.handled =>
             /\ pc = "loop"
             /\ inbox'.handled = Append(inbox.handled, inbox.queue[1])
             /\ step'.frame = inbox.queue[1]
             /\ step'.frame.kind = "evt" => step'.invoked # <<>>]_vars

\* the start-discovery response and a found-device event had both arrived
\* before the handlers were registered; the loop has handled both: the
\* session is discovering and the device's name confirmation is requested
C30_Witness ==
    /\ inbox.early = 2
    /\ Len(inbox.handled) = 2
    /\ inbox.handled[1] = Rsp("START_DISCOVERY", 0, 0)
    /\ discovery
    /\ FlaggedFound
    /\ ConfirmSent = 1
    /\ pc = "loop"

\* the controller an argument of --index names: the number N, written as N
\* or as hciN in any case
Named(arg) ==
    IF Len(arg) > 3 /\ SameNoCase(arg, <<"h", "c", "i">>, 3)
    THEN Digits(SubSeq(arg, 4, Len(arg)), 0)
    ELSE Digits(arg, 0)

\* C32: once the options are read, main's index is the controller that the
\* argument of --index names, given as N or as hciN in any case, and the
\* command's request goes to that controller; without --index the request
\* of a per-controller command goes to controller 0.
C32_IndexOptionSelects ==
    /\ (pc # "getopt" /\ argv.index # NoArg) => optIndex = Named(argv.index)
    /\ (pc # "getopt" /\ argv.index = NoArg) => optIndex = MGMT_INDEX_NONE
    /\ CommandSubmitted =>
          step.sent[1].index = IF argv.index = NoArg THEN 0 ELSE Named(argv.index)

\* the working state with the monitor flag set to b
WithMonitor(b) == [Cur EXCEPT !.monitor = b]

\* what a step leaves behind apart from the monitor flag and the printing
Quiet(s) == [s EXCEPT !.monitor = FALSE, !.out = 0]

\* the inbound frames of all the runs considered
AnyFrame == RspFrames \cup EvtFrames \cup PromptRspFrames \cup PromptEvtFrames \cup OptFrames

\* C31: the monitor flag changes only what is printed.  In every state of
\* a run, with or without --verbose, the command and the handling of any
\* inbound frame, under any answer of the transport, have the same effect
\* with the flag set as with the flag clear: the same requests submitted,
\* the same calls completed, the same stop signals, the same input consumed,
\* the same tables afterwards.  Two runs that differ in the flag alone and
\* are given the same frames and input therefore go through states that
\* differ in the flag and the printing alone.
C31_MonitorOnlyPrints ==
    /\ pc = "start" =>
          \A ok \in BOOLEAN :
              LET e == [ok |-> ok, ub |-> FALSE, ok2 |-> TRUE]
              IN Quiet(Command(cmd, WithMonitor(TRUE), optIndex, e))
                    = Quiet(Command(cmd, WithMonitor(FALSE), optIndex, e))
    /\ pc = "loop" =>
          \A f \in AnyFrame, ok \in BOOLEAN, ub \in BOOLEAN :
              LET e == [ok |-> ok, ub |-> ub, ok2 |-> TRUE]
              IN Quiet(can_read_data(WithMonitor(TRUE), f, resolve_names, e))
                    = Quiet(can_read_data(WithMonitor(FALSE), f, resolve_names, e))

\* a find run with --verbose that waits for its start-discovery response
\* has printed a found-device event with the confirm-name flag and has
\* submitted nothing for it
C31_Witness ==
    /\ argv.verbose
    /\ monitor
    /\ cmd = "find"
    /\ ~discovery
    /\ FlaggedFound
    /\ step.out = 1
    /\ step.sent = <<>>
    /\ pc = "loop"

====
